---------------------------- MODULE Spec2Model ----------------------------
(***************************************************************************)
(* Model of src/main.py: the data loading, join and aggregation pipeline   *)
(* of the polar-plant EC dashboard, as one Streamlit script run after      *)
(* another over a fixed data directory.                                    *)
(*                                                                         *)
(* Strings are sequences of Unicode code points, so that NFC               *)
(* normalisation, str.split and Path.suffix are computed and not assumed.  *)
(***************************************************************************)
EXTENDS Integers, Sequences, FiniteSets

(***************************************************************************)
(* Bounds of the model.                                                    *)
(***************************************************************************)
\* rows of the four environment CSVs together: 0..MaxEnvRows
MaxEnvRows == 4
\* rows of the sheets of the workbook of a script run together: 0..MaxRunRows
MaxRunRows == 2
\* rows of the sheets of a workbook handed to the join alone: 0..MaxGrowthRows
MaxGrowthRows == 3
\* sheets of the workbook: 1..MaxSheets
MaxSheets == 2
\* directory entries of a listing handed to the resolver alone: 0..MaxListing
MaxListing == 2

(***************************************************************************)
(* unicodedata.normalize("NFC", name), for the code points the file names  *)
(* use: ASCII and Hangul.  The Hangul constants are those of the Unicode   *)
(* standard (section 3.12), which unicodedata implements.                  *)
(***************************************************************************)
SBase == 44032
LBase == 4352
VBase == 4449
TBase == 4519
LCount == 19
VCount == 21
TCount == 28
NCount == VCount * TCount
SCount == LCount * NCount

IsSyllable(c) == c >= SBase /\ c < SBase + SCount
IsL(c) == c >= LBase /\ c < LBase + LCount
IsV(c) == c >= VBase /\ c < VBase + VCount
\* a trailing consonant; TBase itself stands for "no trailing consonant"
IsT(c) == c > TBase /\ c < TBase + TCount
IsLV(c) == IsSyllable(c) /\ (c - SBase) % TCount = 0

\* canonical decomposition of one code point
DecomposeChar(c) ==
    IF ~IsSyllable(c) THEN <<c>>
    ELSE LET s == c - SBase
             l == LBase + (s \div NCount)
             v == VBase + ((s % NCount) \div TCount)
             t == TBase + (s % TCount)
         IN  IF t = TBase THEN <<l, v>> ELSE <<l, v, t>>

RECURSIVE Decompose(_)
\* canonical decomposition (NFD) of a string
Decompose(s) ==
    IF s = <<>> THEN <<>> ELSE DecomposeChar(Head(s)) \o Decompose(Tail(s))

RECURSIVE ComposeInto(_, _)
\* canonical composition: out is the composed prefix, s what is left
ComposeInto(out, s) ==
    IF s = <<>> THEN out
    ELSE LET c == Head(s)
             n == Len(out)
             last == out[n]
         IN  IF n > 0 /\ IsL(last) /\ IsV(c)
             THEN ComposeInto(
                    [out EXCEPT ![n] = SBase + ((last - LBase) * VCount + (c - VBase)) * TCount],
                    Tail(s))
             ELSE IF n > 0 /\ IsLV(last) /\ IsT(c)
             THEN ComposeInto([out EXCEPT ![n] = last + (c - TBase)], Tail(s))
             ELSE ComposeInto(Append(out, c), Tail(s))

\* a plausible bug: the name is compared as it is, without normalisation
normalize_name_Identity(name) == name

\* normalize_name: NFC is the composition of the canonical decomposition
normalize_name(name) == ComposeInto(<<>>, Decompose(name))

(***************************************************************************)
(* The strings of the program.                                             *)
(***************************************************************************)
Songdo == <<49569, 46020, 44256>>
Haneul == <<54616, 45720, 44256>>
Ara == <<50500, 46972, 44256>>
Dongsan == <<46041, 49328, 44256>>
Jeonche == <<51204, 52404>>
EnvSuffix == <<95, 54872, 44221, 45936, 51060, 53552, 46, 99, 115, 118>>
Underscore == <<95>>
Dot == <<46>>
XlsxSuffix == <<46, 120, 108, 115, 120>>

\* the fixed, ordered list of load_environment_data
CsvNames ==
    << Songdo \o EnvSuffix, Haneul \o EnvSuffix, Ara \o EnvSuffix, Dongsan \o EnvSuffix >>

\* ec_map of tab1
ec_map == [s \in {Songdo, Haneul, Ara, Dongsan} |->
             CASE s = Songdo -> 4 [] s = Haneul -> 2 [] s = Ara -> 8 [] s = Dongsan -> 6]

Kita == <<44592, 53440>>
WorkbookA == <<49373, 50977, 44208, 44284>> \o XlsxSuffix
WorkbookB == <<98>> \o XlsxSuffix
\* a name that differs from the first CSV name by one trailing consonant
DecoyCsv == <<49552, 46020, 44256>> \o EnvSuffix
\* the first CSV name with its first syllable split as LV syllable + trailing jamo
MixedCsv == <<49548, 4540>> \o Tail(CsvNames[1])

\* the value None: of a path (no file name is empty) ...
None == <<>>
\* ... and of a loader's result
NoneValue == [kind |-> "None", items |-> <<>>, name |-> <<>>]
Unset == [kind |-> "unset", items |-> <<>>, name |-> <<>>]

(***************************************************************************)
(* Python's str.split(sep)[0] and str.rfind, pathlib's Path.suffix, a dict *)
(* (insertion ordered) as a sequence of items, pd.concat.                  *)
(***************************************************************************)
RECURSIVE SplitHead(_, _)
\* s.split(sep)[0] for a separator of one code point
SplitHead(s, sep) ==
    IF s = <<>> \/ <<Head(s)>> = sep THEN <<>>
    ELSE <<Head(s)>> \o SplitHead(Tail(s), sep)

RECURSIVE RFind(_, _, _)
\* the last position <= i of code point c in s, 0 when there is none
RFind(s, c, i) ==
    IF i = 0 THEN 0 ELSE IF <<s[i]>> = c THEN i ELSE RFind(s, c, i - 1)

\* Path.suffix: from the last dot, unless the dot leads or ends the name
Suffix(name) ==
    LET i == RFind(name, Dot, Len(name))
    IN  IF i > 1 /\ i < Len(name) THEN SubSeq(name, i, Len(name)) ELSE <<>>

Keys(d) == [i \in DOMAIN d |-> d[i].key]
KeySet(d) == {d[i].key : i \in DOMAIN d}
\* d[k] = df
DictSet(d, k, df) ==
    IF k \in KeySet(d)
    THEN [i \in DOMAIN d |-> IF d[i].key = k THEN [key |-> k, df |-> df] ELSE d[i]]
    ELSE Append(d, [key |-> k, df |-> df])

RECURSIVE concat(_)
\* pd.concat(d.values()): the rows of every table, in the order of the dict
concat(d) == IF d = <<>> THEN <<>> ELSE Head(d).df \o concat(Tail(d))

(***************************************************************************)
(* find_file_by_normalized_name: the first entry of the listing whose      *)
(* normalised name is the normalised target.                               *)
(***************************************************************************)
RECURSIVE FindFrom(_, _, _)
FindFrom(directory, target_n, i) ==
    IF i > Len(directory) THEN None
    ELSE IF normalize_name(directory[i]) = target_n THEN directory[i]
    ELSE FindFrom(directory, target_n, i + 1)

find_file_by_normalized_name(directory, target_name) ==
    FindFrom(directory, normalize_name(target_name), 1)

(***************************************************************************)
(* What the script shows: st.error messages and rendered elements, in the  *)
(* order of the calls.                                                     *)
(***************************************************************************)
El(kind) == [kind |-> kind, text |-> "", name |-> <<>>]
\* st.error(f"파일을 찾을 수 없습니다: {csv_name}")
ErrorCsv(csv_name) == [kind |-> "error", text |-> "file not found", name |-> csv_name]
\* st.error("생육 결과 XLSX 파일을 찾을 수 없습니다.")
ErrorXlsx == [kind |-> "error", text |-> "no growth XLSX file", name |-> <<>>]
\* the elements section 7 of the design calls rendering
RenderKinds == {"title", "tabs", "table", "metric", "chart", "dataframe", "download"}
\* lines 14-29: the page configuration and the font style sheet, before the loads
PageStart == <<El("markdown")>>

(***************************************************************************)
(* load_environment_data.  csv[i] is what pd.read_csv returns for the file *)
(* that resolves CsvNames[i]: its rows, without the school column.         *)
(***************************************************************************)
\* df["school"] = label
StampSchool(df, label) == [i \in DOMAIN df |-> [time |-> df[i].time, school |-> label]]

\* csv_name.split("_")[0]
SchoolOf(csv_name) == SplitHead(csv_name, Underscore)

\* lines 62-64: st.error(...); return None
Missing(result, csv_name) ==
    [exc |-> "", value |-> NoneValue, msgs |-> <<ErrorCsv(csv_name)>>]

RECURSIVE EnvLoop(_, _, _, _)
\* the loop of lines 55-67 from its i-th name on, then line 68
EnvLoop(i, result, directory, csv) ==
    IF i > Len(CsvNames)
    THEN [exc |-> "", value |-> [kind |-> "dict", items |-> result, name |-> <<>>],
          msgs |-> <<>>]
    ELSE LET csv_name == CsvNames[i]
             file_path == find_file_by_normalized_name(directory, csv_name)
             df == StampSchool(csv[i], SchoolOf(csv_name))
         IN  IF file_path = None THEN Missing(result, csv_name)
             ELSE IF df = <<>>
             \* df["school"].iloc[0] of a table without rows
             THEN [exc |-> "IndexError", value |-> Unset, msgs |-> <<>>]
             ELSE EnvLoop(i + 1, DictSet(result, df[1].school, df), directory, csv)

load_environment_data(directory, csv) == EnvLoop(1, <<>>, directory, csv)

(***************************************************************************)
(* load_growth_data.  book is what pd.ExcelFile gives for the workbook     *)
(* found: its sheets in order, each a name and the rows pd.read_excel      *)
(* returns (the fresh weights).                                            *)
(***************************************************************************)
RECURSIVE FirstXlsx(_, _)
\* lines 73-77: the first entry whose suffix is ".xlsx"
FirstXlsx(directory, i) ==
    IF i > Len(directory) THEN None
    ELSE IF Suffix(directory[i]) = XlsxSuffix THEN directory[i]
    ELSE FirstXlsx(directory, i + 1)

\* df["학교"] = sheet
StampSheet(rows, sheet) == [i \in DOMAIN rows |-> [school |-> sheet, weight |-> rows[i]]]

\* a plausible bug: every sheet is stored under the first sheet's name
SheetKey_First(book, j) == book[1].name

\* the key of line 88
SheetKey(book, j) == book[j].name

RECURSIVE SheetLoop(_, _, _)
\* lines 85-88 from the j-th sheet on
SheetLoop(j, data, book) ==
    IF j > Len(book) THEN data
    ELSE SheetLoop(j + 1,
                   DictSet(data, SheetKey(book, j), StampSheet(book[j].rows, book[j].name)),
                   book)

load_growth_data(directory, book) ==
    LET xlsx_path == FirstXlsx(directory, 1)
    IN  IF xlsx_path = None
        THEN [exc |-> "", value |-> NoneValue, msgs |-> <<ErrorXlsx>>]
        ELSE [exc |-> "",
              value |-> [kind |-> "tuple", items |-> SheetLoop(1, <<>>, book), name |-> xlsx_path],
              msgs |-> <<>>]

(***************************************************************************)
(* The join and the aggregate of tab1.  A float that may be NaN is a       *)
(* sequence: <<x>> for x, <<>> for NaN.                                    *)
(***************************************************************************)
NaN == <<>>

\* a plausible bug: the rows of a school without a target EC are dropped
AttachEC_DropUnmapped(g) ==
    LET kept == SelectSeq(g, LAMBDA r : r.school \in DOMAIN ec_map)
    IN  [i \in DOMAIN kept |->
           [school |-> kept[i].school, weight |-> kept[i].weight,
            EC |-> <<ec_map[kept[i].school]>>]]

\* growth_all["EC"] = growth_all["학교"].map(ec_map): NaN where the map has no key
AttachEC(g) ==
    [i \in DOMAIN g |->
       [school |-> g[i].school, weight |-> g[i].weight,
        EC |-> IF g[i].school \in DOMAIN ec_map THEN <<ec_map[g[i].school]>> ELSE NaN]]

\* groupby("EC"): the groups are the EC values that occur; NaN keys are dropped
ECGroups(g) == {g[i].EC[1] : i \in {k \in DOMAIN g : g[k].EC # NaN}}
GroupRows(g, e) == SelectSeq(g, LAMBDA r : r.EC = <<e>>)
RECURSIVE SumWeight(_)
SumWeight(rows) == IF rows = <<>> THEN 0 ELSE Head(rows).weight + SumWeight(Tail(rows))
\* mean of group a < mean of group b, the means compared exactly
MeanLess(g, a, b) ==
    SumWeight(GroupRows(g, a)) * Len(GroupRows(g, b))
      < SumWeight(GroupRows(g, b)) * Len(GroupRows(g, a))

\* a plausible bug: the group totals are compared, not the means
BestGroup_BySum(g) ==
    CHOOSE e \in ECGroups(g) :
        \A o \in ECGroups(g) :
            /\ SumWeight(GroupRows(g, e)) >= SumWeight(GroupRows(g, o))
            /\ SumWeight(GroupRows(g, e)) = SumWeight(GroupRows(g, o)) => e <= o

\* .mean().idxmax(): the first label, in ascending EC, of the largest mean
BestGroup(g) ==
    CHOOSE e \in ECGroups(g) :
        \A o \in ECGroups(g) :
            /\ ~MeanLess(g, e, o)
            /\ (~MeanLess(g, o, e)) => e <= o

(***************************************************************************)
(* The inputs: directory listings in the order iterdir yields them, the    *)
(* rows of the CSV files and the sheets of the workbook.                   *)
(***************************************************************************)
RECURSIVE SortedSeq(_)
\* the elements of a set of numbers, ascending
SortedSeq(S) ==
    IF S = {} THEN <<>>
    ELSE LET m == CHOOSE x \in S : \A y \in S : x <= y
         IN  <<m>> \o SortedSeq(S \ {m})

Forms == {"NFC", "NFD"}
InForm(name, form) == IF form = "NFD" THEN Decompose(name) ELSE name
\* the CSV files of the schools P, as a file system of that form lists them
\* (a file system that decomposes names hands out NFD, the others what was stored)
CsvEntries(P, form) ==
    LET idx == SortedSeq(P) IN [k \in DOMAIN idx |-> InForm(CsvNames[idx[k]], form)]
WorkbookLists ==
    {<<>>, <<WorkbookA>>, <<WorkbookB>>, <<WorkbookA, WorkbookB>>, <<WorkbookB, WorkbookA>>}
Listings ==
    {CsvEntries(P, f) \o w : P \in SUBSET (1..Len(CsvNames)), f \in Forms, w \in WorkbookLists}

\* a table of n sensor readings; of its columns the model keeps the time, the
\* measurements (temperature, humidity, ph, ec) being read by the charts alone
EnvTable(n) == [i \in 1..n |-> [time |-> i]]
EnvContents ==
    {[i \in 1..Len(CsvNames) |-> EnvTable(n[i])] :
        n \in {m \in [1..Len(CsvNames) -> 0..MaxEnvRows] :
                 m[1] + m[2] + m[3] + m[4] <= MaxEnvRows}}

Weights == {5, 10}
SheetLabels == <<Songdo, Haneul, Ara, Dongsan, Kita>>
\* the sheet names of the workbook of a script run
RunLabels == <<Songdo, Haneul, Kita>>
RECURSIVE SheetsOf(_, _)
\* the sheets named names, in order, with at most budget rows together
SheetsOf(names, budget) ==
    IF names = <<>> THEN {<<>>}
    ELSE UNION {
           {<<[name |-> Head(names), rows |-> w]>> \o rest :
               rest \in SheetsOf(Tail(names), budget - Len(w))} :
           w \in UNION {[1..n -> Weights] : n \in 0..budget}}
\* the workbooks of 1..MaxSheets sheets, with distinct names among labels and at
\* most maxRows rows
BooksOf(labels, maxRows) ==
    UNION {
        LET idx == SortedSeq(S)
        IN  SheetsOf([k \in DOMAIN idx |-> labels[idx[k]]], maxRows) :
        S \in {T \in SUBSET (1..Len(labels)) : T # {} /\ Cardinality(T) <= MaxSheets}}
RunBooks == BooksOf(RunLabels, MaxRunRows)
JoinBooks == BooksOf(SheetLabels, MaxGrowthRows)

\* the targets and the entries of the listings handed to the resolver alone
ProbeTargets == {CsvNames[1], Decompose(CsvNames[1]), CsvNames[2], DecoyCsv}
ProbeNames ==
    {CsvNames[1], Decompose(CsvNames[1]), MixedCsv, DecoyCsv, CsvNames[2], WorkbookA}
ProbeListings ==
    {l \in UNION {[1..k -> ProbeNames] : k \in 0..MaxListing} :
        \A i, j \in DOMAIN l : i # j => l[i] # l[j]}

(***************************************************************************)
(* The state.                                                              *)
(***************************************************************************)
VARIABLES
    dir,                \* DATA_DIR.iterdir(): the entries' names, in order
    pc,                 \* the position of the script run
    env_cache,          \* st.cache_data of load_environment_data
    growth_cache,       \* st.cache_data of load_growth_data
    xls,                \* the workbook load_growth_data opened
    env_data,
    growth_data_tuple,
    selected_school,
    growth_all,
    env_all,
    optimal_ec,
    page,               \* what the run has shown so far
    exception,          \* the exception that ended the run, "" when none
    target,             \* the resolver alone: its target ...
    found               \* ... and what it returned

vars == <<dir, pc, env_cache, growth_cache, xls, env_data, growth_data_tuple,
          selected_school, growth_all, env_all, optimal_ec, page, exception,
          target, found>>

CacheMiss == [kind |-> "miss", value |-> Unset, msgs |-> <<>>]
NoFrame == [kind |-> "unset", rows |-> <<>>]
Frame(rows) == [kind |-> "frame", rows |-> rows]

\* the names a script run starts without
RunStart ==
    /\ env_data = Unset
    /\ growth_data_tuple = Unset
    /\ selected_school = <<>>
    /\ growth_all = NoFrame
    /\ env_all = NoFrame
    /\ optimal_ec = NaN
    /\ page = PageStart
    /\ exception = ""

Init ==
    /\ dir \in Listings
    /\ pc = "start"
    /\ env_cache = CacheMiss
    /\ growth_cache = CacheMiss
    /\ xls = <<>>
    /\ RunStart
    /\ target = <<>>
    /\ found = <<>>

\* an uncaught exception ends the run
Raise(exc) ==
    /\ pc' = "crashed"
    /\ exception' = exc
    /\ page' = Append(page, [kind |-> "exception", text |-> exc, name |-> <<>>])

\* the outcome r of load_environment_data reaches the script
EnvReturns(r) ==
    IF r.exc # ""
    THEN /\ Raise(r.exc)
         /\ UNCHANGED <<env_cache, env_data>>
    ELSE /\ env_data' = r.value
         /\ env_cache' = [kind |-> "hit", value |-> r.value, msgs |-> r.msgs]
         /\ page' = page \o r.msgs
         /\ pc' = "env_loaded"
         /\ UNCHANGED exception

\* line 91: env_data = load_environment_data(), through st.cache_data: a cached
\* value is returned and its messages are shown again
LoadEnvironment ==
    /\ pc = "start"
    /\ IF env_cache.kind = "hit"
       THEN EnvReturns([exc |-> "", value |-> env_cache.value, msgs |-> env_cache.msgs])
       ELSE \E csv \in EnvContents : EnvReturns(load_environment_data(dir, csv))
    /\ UNCHANGED <<dir, growth_cache, xls, growth_data_tuple, selected_school,
                   growth_all, env_all, optimal_ec, target, found>>

\* the outcome r of load_growth_data reaches the script
GrowthReturns(r) ==
    /\ growth_data_tuple' = r.value
    /\ growth_cache' = [kind |-> "hit", value |-> r.value, msgs |-> r.msgs]
    /\ page' = page \o r.msgs
    /\ pc' = "loaded"

\* line 92: growth_data_tuple = load_growth_data(), through st.cache_data
LoadGrowth ==
    /\ pc = "env_loaded"
    /\ IF growth_cache.kind = "hit"
       THEN /\ GrowthReturns([exc |-> "", value |-> growth_cache.value,
                              msgs |-> growth_cache.msgs])
            /\ UNCHANGED xls
       ELSE \E book \in RunBooks :
              /\ GrowthReturns(load_growth_data(dir, book))
              \* pd.ExcelFile(xlsx_path) is reached when a workbook was found
              /\ xls' = IF FirstXlsx(dir, 1) = None THEN xls ELSE book
    /\ UNCHANGED <<dir, env_cache, env_data, selected_school, growth_all, env_all,
                   optimal_ec, exception, target, found>>

\* a plausible bug: the run stops only when both loads failed
LoadFailed_Both(e, g) == e = NoneValue /\ g = NoneValue

\* line 94: env_data is None or growth_data_tuple is None
LoadFailed(e, g) == e = NoneValue \/ g = NoneValue

\* lines 94-97: st.stop() after a failed load
LoadGuard ==
    /\ pc = "loaded"
    /\ pc' = IF LoadFailed(env_data, growth_data_tuple) THEN "stopped" ELSE "sidebar"
    /\ UNCHANGED <<dir, env_cache, growth_cache, xls, env_data, growth_data_tuple,
                   selected_school, growth_all, env_all, optimal_ec, page, exception,
                   target, found>>

\* growth_data, growth_filename = growth_data_tuple (line 97)
growth_data == growth_data_tuple.items
growth_filename == growth_data_tuple.name

\* a plausible bug: the selector offers the sheets of the workbook
schools_FromGrowth == <<Jeonche>> \o Keys(growth_data)

\* line 102: ["전체"] + list(env_data.keys())
schools == <<Jeonche>> \o Keys(env_data.items)

\* lines 102-103: the user picks one of the options of the selector
Sidebar ==
    /\ pc = "sidebar"
    /\ \E k \in DOMAIN schools : selected_school' = schools[k]
    /\ page' = Append(page, El("selectbox"))
    /\ pc' = "header"
    /\ UNCHANGED <<dir, env_cache, growth_cache, xls, env_data, growth_data_tuple,
                   growth_all, env_all, optimal_ec, exception, target, found>>

\* lines 108-130: the title, the tabs, the text and the table of tab1
Header ==
    /\ pc = "header"
    /\ page' = page \o <<El("title"), El("tabs"), El("subheader"), El("markdown"), El("table")>>
    /\ pc' = "tab1_concat"
    /\ UNCHANGED <<dir, env_cache, growth_cache, xls, env_data, growth_data_tuple,
                   selected_school, growth_all, env_all, optimal_ec, exception,
                   target, found>>

\* lines 132-136: the totals of tab1 and growth_all = pd.concat(growth_data.values())
Tab1Concat ==
    /\ pc = "tab1_concat"
    /\ growth_all' = Frame(concat(growth_data))
    /\ pc' = "tab1_join"
    /\ UNCHANGED <<dir, env_cache, growth_cache, xls, env_data, growth_data_tuple,
                   selected_school, env_all, optimal_ec, page, exception, target, found>>

\* lines 137-138: the EC column is added to growth_all
Tab1Join ==
    /\ pc = "tab1_join"
    /\ growth_all' = Frame(AttachEC(growth_all.rows))
    /\ pc' = "tab1_metrics"
    /\ UNCHANGED <<dir, env_cache, growth_cache, xls, env_data, growth_data_tuple,
                   selected_school, env_all, optimal_ec, page, exception, target, found>>

\* lines 139-149: optimal_ec and the four metrics; idxmax of no group raises
Tab1Metrics ==
    /\ pc = "tab1_metrics"
    /\ IF ECGroups(growth_all.rows) = {}
       THEN /\ Raise("ValueError")
            /\ UNCHANGED optimal_ec
       ELSE /\ optimal_ec' = <<BestGroup(growth_all.rows)>>
            /\ page' = page \o <<El("metric"), El("metric"), El("metric"), El("metric")>>
            /\ pc' = "tab2"
            /\ UNCHANGED exception
    /\ UNCHANGED <<dir, env_cache, growth_cache, xls, env_data, growth_data_tuple,
                   selected_school, growth_all, env_all, target, found>>

\* lines 154-200: the averages, the time series of the selected school, the export
Tab2 ==
    /\ pc = "tab2"
    /\ env_all' = Frame(concat(env_data.items))
    /\ IF selected_school # Jeonche
          /\ (selected_school \notin KeySet(env_data.items)
              \/ selected_school \notin DOMAIN ec_map)
       \* env_data[selected_school] (line 178), ec_map[selected_school] (line 185)
       THEN /\ pc' = "crashed"
            /\ exception' = "KeyError"
            /\ page' = page \o <<El("subheader"), El("chart"),
                                 [kind |-> "exception", text |-> "KeyError", name |-> <<>>]>>
       ELSE /\ page' = page \o <<El("subheader"), El("chart")>>
                         \o (IF selected_school # Jeonche
                             THEN <<El("subheader"), El("chart")>> ELSE <<>>)
                         \o <<El("dataframe"), El("download")>>
            /\ pc' = "tab3"
            /\ UNCHANGED exception
    /\ UNCHANGED <<dir, env_cache, growth_cache, xls, env_data, growth_data_tuple,
                   selected_school, growth_all, optimal_ec, target, found>>

\* lines 205-288: the charts of the growth results and the export
Tab3 ==
    /\ pc = "tab3"
    /\ page' = page \o <<El("subheader"), El("chart"), El("subheader"), El("chart"),
                         El("subheader"), El("chart"), El("subheader"), El("chart"),
                         El("chart"), El("dataframe"), El("download")>>
    /\ pc' = "done"
    /\ UNCHANGED <<dir, env_cache, growth_cache, xls, env_data, growth_data_tuple,
                   selected_school, growth_all, env_all, optimal_ec, exception,
                   target, found>>

\* an interaction: the framework runs the script again, top to bottom
Rerun ==
    /\ pc \in {"done", "stopped", "crashed"}
    /\ pc' = "start"
    /\ env_data' = Unset
    /\ growth_data_tuple' = Unset
    /\ selected_school' = <<>>
    /\ growth_all' = NoFrame
    /\ env_all' = NoFrame
    /\ optimal_ec' = NaN
    /\ page' = PageStart
    /\ exception' = ""
    /\ UNCHANGED <<dir, env_cache, growth_cache, xls, target, found>>

Next ==
    \/ LoadEnvironment
    \/ LoadGrowth
    \/ LoadGuard
    \/ Sidebar
    \/ Header
    \/ Tab1Concat
    \/ Tab1Join
    \/ Tab1Metrics
    \/ Tab2
    \/ Tab3
    \/ Rerun

Spec == Init /\ [][Next]_vars

(***************************************************************************)
(* The resolver alone, on a listing and a target drawn from bounded sets.  *)
(***************************************************************************)
ResolverInit ==
    /\ dir \in ProbeListings
    /\ target \in ProbeTargets
    /\ found = <<>>
    /\ pc = "probe"
    /\ env_cache = CacheMiss
    /\ growth_cache = CacheMiss
    /\ xls = <<>>
    /\ RunStart

Resolve ==
    /\ pc = "probe"
    /\ found' = find_file_by_normalized_name(dir, target)
    /\ pc' = "probed"
    /\ UNCHANGED <<dir, env_cache, growth_cache, xls, env_data, growth_data_tuple,
                   selected_school, growth_all, env_all, optimal_ec, page, exception,
                   target>>

ResolverNext == Resolve

ResolverSpec == ResolverInit /\ [][ResolverNext]_vars

(***************************************************************************)
(* The join and the aggregate alone: tab1 from line 132 on, in a run whose *)
(* loads succeeded, on a workbook drawn from a larger set.                 *)
(***************************************************************************)
FullListing == CsvEntries(1..Len(CsvNames), "NFC") \o <<WorkbookA>>
FullEnv == load_environment_data(FullListing, [i \in 1..Len(CsvNames) |-> EnvTable(1)])

JoinInit ==
    /\ dir = FullListing
    /\ pc = "tab1_concat"
    /\ env_data = FullEnv.value
    /\ env_cache = [kind |-> "hit", value |-> FullEnv.value, msgs |-> FullEnv.msgs]
    /\ \E book \in JoinBooks :
         LET r == load_growth_data(dir, book)
         IN  /\ xls = book
             /\ growth_data_tuple = r.value
             /\ growth_cache = [kind |-> "hit", value |-> r.value, msgs |-> r.msgs]
    /\ selected_school = Jeonche
    /\ growth_all = NoFrame
    /\ env_all = NoFrame
    /\ optimal_ec = NaN
    /\ page = PageStart \o <<El("selectbox"), El("title"), El("tabs"), El("subheader"),
                              El("markdown"), El("table")>>
    /\ exception = ""
    /\ target = <<>>
    /\ found = <<>>

JoinNext ==
    \/ Tab1Concat
    \/ Tab1Join
    \/ Tab1Metrics

JoinSpec == JoinInit /\ [][JoinNext]_vars

(***************************************************************************)
(* What the claims speak of, stated without the operators that compute it. *)
(***************************************************************************)
\* canonical equivalence of two names: their canonical decompositions agree
CanonEq(a, b) == Decompose(a) = Decompose(b)
\* the expected CSV names (by position in the fixed order) no entry of d is
\* canonically equivalent to
MissingCsv(d) ==
    {i \in DOMAIN CsvNames : \A k \in DOMAIN d : ~CanonEq(d[k], CsvNames[i])}
\* the name ends in ".xlsx" and has a stem
IsXlsx(n) ==
    Len(n) > Len(XlsxSuffix) /\ SubSeq(n, Len(n) - Len(XlsxSuffix) + 1, Len(n)) = XlsxSuffix
FourSchools == {Songdo, Haneul, Ara, Dongsan}
Shown(e) == \E k \in DOMAIN page : page[k] = e
Rendered == \E k \in DOMAIN page : page[k].kind \in RenderKinds
\* the load of line 91 is behind the run
EnvLoadDone == pc \notin {"start", "probe", "probed"}
\* the load of line 92 is behind the run
GrowthLoadDone == growth_data_tuple # Unset
\* the EC column has been attached to growth_all
Joined == growth_all.kind = "frame" /\ pc \in {"tab1_metrics", "tab2", "tab3", "done", "crashed"}
RECURSIVE SumSeq(_)
SumSeq(w) == IF w = <<>> THEN 0 ELSE Head(w) + SumSeq(Tail(w))

(***************************************************************************)
(* C1.  Whenever one of the four expected CSV names cannot be resolved in  *)
(* the directory, load_environment_data returns None, never a mapping, and *)
(* the error message it shows names the first missing file of the fixed    *)
(* order.  Stated as written, for every content of the files that are      *)
(* there.                                                                  *)
(***************************************************************************)
C1_MissingCsvFailsLoad ==
    (EnvLoadDone /\ MissingCsv(dir) # {}) =>
        /\ env_data = NoneValue
        /\ Shown(ErrorCsv(CsvNames[CHOOSE i \in MissingCsv(dir) :
                                     \A j \in MissingCsv(dir) : i <= j]))

(***************************************************************************)
(* C2.  When the growth mapping holds rows of a sheet whose name has no    *)
(* entry in ec_map, the lookup fails loudly: the run ends with an error at *)
(* the join, and no row is given a null EC on the way to the aggregates.   *)
(***************************************************************************)
C2_UnmappedSchoolFailsLoudly ==
    (Joined /\ \E k \in DOMAIN growth_all.rows : growth_all.rows[k].school \notin DOMAIN ec_map)
        => (pc = "crashed" /\ optimal_ec = NaN
            /\ \A k \in DOMAIN growth_all.rows : growth_all.rows[k].EC # NaN)

(***************************************************************************)
(* C3.  In a run in which load_environment_data or load_growth_data        *)
(* returned None, nothing is rendered (no title, tab, table, metric,       *)
(* chart, data frame or download button), the run does not go past the     *)
(* guard of line 94, and the message of each failed load has been shown.   *)
(***************************************************************************)
C3_FailedLoadHalts ==
    (env_data = NoneValue \/ growth_data_tuple = NoneValue) =>
        /\ pc \in {"env_loaded", "loaded", "stopped"}
        /\ ~Rendered
        /\ env_data = NoneValue =>
             \E i \in DOMAIN CsvNames : Shown(ErrorCsv(CsvNames[i]))
        /\ growth_data_tuple = NoneValue => Shown(ErrorXlsx)

\* the run halted at the guard after a failed environment load, the workbook loaded
C3_Witness ==
    /\ pc = "stopped"
    /\ env_data = NoneValue
    /\ growth_data_tuple.kind = "tuple"

(***************************************************************************)
(* C4.  When every sheet of the workbook is a school of ec_map and the     *)
(* rows of one school have a mean fresh weight strictly greater than the   *)
(* rows of every other school, the optimal EC is that school's EC.         *)
(***************************************************************************)
C4_OptimalEC ==
    (pc = "tab2" /\ \A k \in DOMAIN xls : xls[k].name \in DOMAIN ec_map) =>
        \A k \in DOMAIN xls :
            (/\ xls[k].rows # <<>>
             /\ \A j \in DOMAIN xls :
                  (j # k /\ xls[j].rows # <<>>) =>
                      SumSeq(xls[j].rows) * Len(xls[k].rows)
                        < SumSeq(xls[k].rows) * Len(xls[j].rows))
            => optimal_ec = <<ec_map[xls[k].name]>>

\* the end-to-end scenario: 송도고 (EC 4.0) weighs 5 and 5, 하늘고 (EC 2.0) weighs 10
C4_Witness ==
    /\ pc = "tab2"
    /\ xls = <<[name |-> Songdo, rows |-> <<5, 5>>], [name |-> Haneul, rows |-> <<10>>]>>
    /\ optimal_ec = <<2>>

(***************************************************************************)
(* C5.  After the join every row of growth_all carries the school label of *)
(* the sheet it was read from and an EC equal to ec_map's constant for     *)
(* that label, for every row of every workbook.                            *)
(***************************************************************************)
C5_RowsCarrySchoolEC ==
    Joined =>
        /\ Len(growth_all.rows) = SumSeq([k \in DOMAIN xls |-> Len(xls[k].rows)])
        /\ \A k \in DOMAIN xls : \A i \in DOMAIN xls[k].rows :
             LET row == growth_all.rows[SumSeq([j \in 1..(k - 1) |-> Len(xls[j].rows)]) + i]
             IN  /\ row.school = xls[k].name
                 /\ row.weight = xls[k].rows[i]
                 /\ row.school \in DOMAIN ec_map
                 /\ row.EC = <<ec_map[row.school]>>

(***************************************************************************)
(* C6.  When all four expected CSV files are present and parse, the        *)
(* environment mapping has exactly the keys 송도고, 하늘고, 아라고, 동산고 *)
(* and every row of the table under a key has that key as its school.      *)
(***************************************************************************)
C6_FourKeysStamped ==
    (EnvLoadDone /\ MissingCsv(dir) = {}) =>
        /\ env_data.kind = "dict"
        /\ Len(env_data.items) = Cardinality(FourSchools)
        /\ KeySet(env_data.items) = FourSchools
        /\ \A k \in DOMAIN env_data.items : \A i \in DOMAIN env_data.items[k].df :
             env_data.items[k].df[i].school = env_data.items[k].key

(***************************************************************************)
(* C7.  After load_growth_data: when the directory holds an .xlsx entry,   *)
(* the result is the name of such an entry together with a mapping whose   *)
(* keys are exactly the sheet names of the workbook opened, each table     *)
(* holding that sheet's rows, every one labelled with the sheet's name;    *)
(* when it holds none, the result is None and the error message is shown.  *)
(***************************************************************************)
C7_GrowthLoad ==
    GrowthLoadDone =>
        IF \E k \in DOMAIN dir : IsXlsx(dir[k])
        THEN /\ growth_data_tuple.kind = "tuple"
             /\ IsXlsx(growth_filename)
             /\ \E k \in DOMAIN dir : dir[k] = growth_filename
             /\ Keys(growth_data) = [k \in DOMAIN xls |-> xls[k].name]
             /\ \A k \in DOMAIN xls :
                  /\ Len(growth_data[k].df) = Len(xls[k].rows)
                  /\ \A i \in DOMAIN xls[k].rows :
                       /\ growth_data[k].df[i].school = xls[k].name
                       /\ growth_data[k].df[i].weight = xls[k].rows[i]
        ELSE /\ growth_data_tuple = NoneValue
             /\ Shown(ErrorXlsx)

\* a workbook of two sheets, one of them with rows, was loaded from a directory
\* that lists it first of two
C7_Witness ==
    /\ growth_data_tuple.kind = "tuple"
    /\ growth_filename = WorkbookB
    /\ \E k \in DOMAIN dir : dir[k] = WorkbookA
    /\ Len(growth_data) = 2
    /\ growth_data[2].df # <<>>

(***************************************************************************)
(* C8.  find_file_by_normalized_name: when an entry of the listing is      *)
(* canonically equivalent to the target, the result is an entry of the     *)
(* listing that is, so normalize(found) = normalize(target); when none is, *)
(* the result is None.                                                     *)
(***************************************************************************)
C8_ResolverFindsEquivalent ==
    pc = "probed" =>
        IF \E k \in DOMAIN dir : CanonEq(dir[k], target)
        THEN /\ found # None
             /\ \E k \in DOMAIN dir : dir[k] = found
             /\ CanonEq(found, target)
             /\ normalize_name(found) = normalize_name(target)
        ELSE found = None

\* the entry found differs from the target, by its normalisation form alone,
\* and an entry that is not equivalent was passed over
C8_Witness ==
    /\ pc = "probed"
    /\ found # None
    /\ found # target
    /\ CanonEq(found, target)
    /\ Len(dir) > 1
    /\ ~CanonEq(dir[1], target)

(***************************************************************************)
(* C9.  The tables are never mutated once produced: within a script run no *)
(* step changes a unified table (growth_all, env_all) that exists, nor the *)
(* per-school tables of the run, and no step ever changes the tables of    *)
(* the cached loads.  (A new run binds its names anew.)                    *)
(***************************************************************************)
PerSchoolTablesKept ==
    /\ (pc' # "start" /\ env_data # Unset) => env_data' = env_data
    /\ (pc' # "start" /\ growth_data_tuple # Unset) => growth_data_tuple' = growth_data_tuple
    /\ env_cache.kind = "hit" => env_cache' = env_cache
    /\ growth_cache.kind = "hit" => growth_cache' = growth_cache
    /\ (pc' # "start" /\ env_all.kind = "frame") => env_all' = env_all

C9_NeverMutated ==
    [][/\ PerSchoolTablesKept
       /\ (pc' # "start" /\ growth_all.kind = "frame") => growth_all' = growth_all]_vars

StripEC(rows) == [i \in DOMAIN rows |-> [school |-> rows[i].school, weight |-> rows[i].weight]]

\* C9 as amended: the join of line 138 is the one step that changes a unified
\* table in place; it adds the EC column to growth_all and leaves the rows,
\* their order and their other columns as they were
C9_OnlyJoinAddsColumn ==
    [][/\ PerSchoolTablesKept
       /\ (pc' # "start" /\ growth_all.kind = "frame") =>
             \/ growth_all' = growth_all
             \/ /\ pc = "tab1_join"
                /\ growth_all'.kind = "frame"
                /\ StripEC(growth_all'.rows) = growth_all.rows]_vars

\* the join has acted on a table with rows, one of them of an unmapped school,
\* and the run went on to its end
C9_Witness ==
    /\ pc = "done"
    /\ env_all.kind = "frame"
    /\ \E k \in DOMAIN growth_all.rows : growth_all.rows[k].EC = NaN

(***************************************************************************)
(* C10.  In a run that passes the load guard the keys of env_data are the  *)
(* four fixed filename prefixes, the school selected is "전체" or one of   *)
(* these keys, which has an entry in ec_map, and the time series branch of *)
(* tab2 never raises KeyError.                                             *)
(***************************************************************************)
C10_SelectionIsKey ==
    /\ exception # "KeyError"
    /\ pc \in {"sidebar", "header", "tab1_concat", "tab1_join", "tab1_metrics", "tab2",
               "tab3", "done"} => KeySet(env_data.items) = FourSchools
    /\ selected_school # <<>> =>
         \/ selected_school = Jeonche
         \/ /\ selected_school \in KeySet(env_data.items)
            /\ selected_school \in DOMAIN ec_map

\* the time series of a selected school has been drawn
C10_Witness ==
    /\ pc = "tab3"
    /\ selected_school = Dongsan
    /\ exception = ""

=============================================================================
